---- MODULE Spec2Model ----
(***************************************************************************)
(* Model of two event loops of the janus relay node:                       *)
(*   - the client event orchestrator run_ipfs_multiaddr_service            *)
(*     (janus/client/janus-ipfs/src/lib.rs), specification Spec, and       *)
(*     FairSpec for its behaviour under fair scheduling;                   *)
(*   - the service scheduler start_peer_service / peer_service_executor    *)
(*     (janus/server/src/peer_service/peer_service.rs), specification      *)
(*     SchedSpec.                                                          *)
(* Option<T> is modelled as a sequence of length 0 (None) or 1 (Some).     *)
(***************************************************************************)
EXTENDS Naturals, Sequences, FiniteSets

VARIABLES
    \* ---- orchestrator (lib.rs) ----
    pc,            \* position of run_ipfs_multiaddr_service
    bootstrap_id,  \* Option<PeerId>, lib.rs:112
    periodic,      \* the Fuse<Take<Interval>> stream, lib.rs:115-117
    stop,          \* the fused one-shot stop stream, lib.rs:110
    client_task,   \* the transport's background task
    stop_calls,    \* number of client.stop() calls issued
    reg_calls,     \* number of registration calls sent from the periodic arm
    reply_calls,   \* number of reply calls sent from the incoming arm
    last_sent,     \* Option<ClientCommand>: the last command given to client.send
    handled,       \* number of inbound events (Some(..)) handled
    last_event,    \* Option<ClientEvent>: the last value receive_one() yielded
    exit_by,       \* which arm broke the loop
    \* ---- service scheduler (peer_service.rs) ----
    spc,              \* position of the spawned task inside one poll
    woken,            \* the task has been notified and will be polled
    peer_service_in,  \* inbound channel: notifications not yet received
    in_open,          \* some producer of the inbound channel is alive
    enqueued,         \* every notification ever put on the inbound channel
    applied,          \* the calls made on the swarm, in order
    net_pending,      \* network happenings the swarm has not processed yet
    produced,         \* number of outbound events the behaviour has produced
    out_events,       \* the behaviour's queue of outbound events
    peer_service_out, \* what has been put on the outbound channel, in order
    out_open,         \* the consumer of the outbound channel is alive
    exit_signal,      \* the one-shot exit channel
    exit_calls,       \* number of swarm.exit() calls
    tick_forwards,    \* outbound events forwarded in the current tick
    in_poll,          \* what the last peer_service_in.poll() of a tick returned
    lock              \* who holds the Mutex<PeerService>

orch_vars == <<pc, bootstrap_id, periodic, stop, client_task, stop_calls,
               reg_calls, reply_calls, last_sent, handled, last_event,
               exit_by>>

sched_vars == <<spc, woken, peer_service_in, in_open, enqueued, applied,
                net_pending, produced, out_events, peer_service_out, out_open,
                exit_signal, exit_calls, tick_forwards, in_poll, lock>>

vars == <<orch_vars, sched_vars>>

----------------------------------------------------------------------------
(* Bounds of the model *)

\* inbound events the transport delivers in one run
MaxEvents == 2

\* notifications put on the scheduler's inbound channel in one run
MaxIn == 2

\* network happenings the swarm sees in one run
MaxNet == 3

(* Program constants *)

\* .take(10): the periodic timer is bounded to 10 ticks
PeriodicTicks == 10

----------------------------------------------------------------------------
(* Options *)

None == <<>>
Some(x) == <<x>>
IsSome(o) == Len(o) = 1
Unwrap(o) == o[1]

----------------------------------------------------------------------------
(* Address path, faas_api (not part of the sources at hand) *)

Peer(id) == [tag |-> "Peer", id |-> id, sig |-> <<>>]
Service(name) == [tag |-> "Service", id |-> name, sig |-> <<>>]
Signature(s) == [tag |-> "Signature", id |-> "", sig |-> s]

\* relay!(relay, client): the path [Peer(relay), Peer(client)]
relay(relay_peer, client_peer) == <<Peer(relay_peer), Peer(client_peer)>>

\* Address::append: a new path with one more segment
append(addr, seg) == Append(addr, seg)

\* Address::contains
contains(addr, seg) == \E i \in 1..Len(addr) : addr[i] = seg

\* Address::path().as_bytes(): the slash-delimited serialization, one token
\* for each segment kind and one for its value
RECURSIVE path_bytes(_)
path_bytes(addr) ==
    IF addr = <<>> THEN <<>>
    ELSE LET s == Head(addr)
         IN  (IF s.tag = "Signature"
              THEN <<"/signature">> \o s.sig
              ELSE <<IF s.tag = "Peer" THEN "/peer" ELSE "/service", s.id>>)
             \o path_bytes(Tail(addr))

\* Keypair::sign: a signature names the signing key and the bytes signed
sign(kp, bytes) == <<kp>> \o bytes

\* verification of a signed path: the last segment is the only Signature and
\* signs the bytes of the segments before it with the given key
verify(addr, kp) ==
    /\ Len(addr) >= 1
    /\ addr[Len(addr)].tag = "Signature"
    /\ \A i \in 1..(Len(addr) - 1) : addr[i].tag # "Signature"
    /\ addr[Len(addr)].sig = sign(kp, path_bytes(SubSeq(addr, 1, Len(addr) - 1)))

----------------------------------------------------------------------------
(* Configuration of one run of the orchestrator *)

IPFS_SERVICE_ID == "IPFS.multiaddr"
IPFS_SERVICE == Service(IPFS_SERVICE_ID)

\* the arguments `bootstrap` and `ipfs` of run_ipfs_multiaddr_service
bootstrap == "/ip4/10.0.0.1/tcp/7777"
ipfs == "/ip4/10.0.0.9/tcp/5001"

\* client.peer_id and client.key_pair of the connected Client
client_peer_id == "A"
client_key_pair == "keyA"

RelayPeers == {"R1", "R2"}
Multiaddrs == {bootstrap, "/ip4/10.0.0.2/tcp/7777"}

\* message_id(): a fresh token for each envelope built
message_id == reg_calls + reply_calls + 1

----------------------------------------------------------------------------
(* Call envelopes *)

register_call_swapped(client, relay_peer, service_id, kp) ==
    LET reply_to == relay(client, relay_peer)
        signature == Signature(sign(kp, path_bytes(reply_to)))
    IN  [uuid |-> message_id,
         target |-> Some(<<Service("provide")>>),
         reply_to |-> Some(append(reply_to, signature)),
         arguments |-> [service_id |-> service_id],
         name |-> Some(<<"Delegate provide service", service_id>>)]

register_call(client, relay_peer, service_id, kp) ==
    LET reply_to == relay(relay_peer, client)
        signature == Signature(sign(kp, path_bytes(reply_to)))
    IN  [uuid |-> message_id,
         target |-> Some(<<Service("provide")>>),
         reply_to |-> Some(append(reply_to, signature)),
         arguments |-> [service_id |-> service_id],
         name |-> Some(<<"Delegate provide service", service_id>>)]

\* serde_json::Value, as far as the "msg_id" argument needs it
JsonNull == [json |-> "null", s |-> ""]
JsonString(str) == [json |-> "string", s |-> str]
JsonNumber(num) == [json |-> "number", s |-> num]

\* Value::as_str: the text of a JSON string, None for any other value
as_str(v) == IF v.json = "string" THEN Some(v.s) ELSE None

\* lib.rs:135: arguments.get("msg_id").and_then(|v| v.as_str())
msg_id_of(argument) ==
    IF IsSome(argument) THEN as_str(Unwrap(argument)) ELSE None

\* json!(msg_id) for an Option<&str>: a JSON string, or null for None
json_of(msg_id) == IF IsSome(msg_id) THEN JsonString(Unwrap(msg_id)) ELSE JsonNull

multiaddr_call_to_relay(relay_peer, client, reply_to_in, msg_id, multiaddr, kp) ==
    LET reply_to == relay(relay_peer, client)
        signature == Signature(sign(kp, path_bytes(reply_to)))
    IN  [uuid |-> message_id,
         target |-> Some(reply_to),
         reply_to |-> Some(append(reply_to, signature)),
         arguments |-> [multiaddr |-> multiaddr, msg_id |-> json_of(msg_id)],
         name |-> Some(<<"Reply on IPFS.multiaddr">>)]

multiaddr_call_unsigned(relay_peer, client, reply_to_in, msg_id, multiaddr, kp) ==
    LET reply_to == relay(relay_peer, client)
    IN  [uuid |-> message_id,
         target |-> Some(reply_to_in),
         reply_to |-> Some(reply_to),
         arguments |-> [multiaddr |-> multiaddr, msg_id |-> json_of(msg_id)],
         name |-> Some(<<"Reply on IPFS.multiaddr">>)]

multiaddr_call(relay_peer, client, reply_to_in, msg_id, multiaddr, kp) ==
    LET reply_to == relay(relay_peer, client)
        signature == Signature(sign(kp, path_bytes(reply_to)))
    IN  [uuid |-> message_id,
         target |-> Some(reply_to_in),
         reply_to |-> Some(append(reply_to, signature)),
         arguments |-> [multiaddr |-> multiaddr, msg_id |-> json_of(msg_id)],
         name |-> Some(<<"Reply on IPFS.multiaddr">>)]

\* ClientCommand::Call { node, call }
Call(node, call) == [node |-> node, call |-> call]

----------------------------------------------------------------------------
(* Inbound events of the client transport *)

CallTargets == {None,
                Some(<<Peer("R2"), IPFS_SERVICE>>),
                Some(<<Peer(client_peer_id), Service("other")>>)}
CallReplyTos == {None, Some(<<Peer("R2"), Peer("B")>>)}
\* what arguments.get("msg_id") can find in an incoming call
MsgIds == {None, Some(JsonString("m1")), Some(JsonNumber("7"))}

\* msg_id varies where the code reads it: in the calls that pass the guard
\* of lib.rs:123-130
FunctionCallEvents ==
    {ev \in [kind : {"FunctionCall"}, target : CallTargets,
             reply_to : CallReplyTos, msg_id : MsgIds, peer_id : {""},
             multiaddr : {""}] :
        IsSome(ev.msg_id) =>
            /\ IsSome(ev.target)
            /\ IsSome(ev.reply_to)
            /\ contains(Unwrap(ev.target), IPFS_SERVICE)}

NewConnectionEvents ==
    {[kind |-> "NewConnection", target |-> None, reply_to |-> None,
      msg_id |-> None, peer_id |-> p, multiaddr |-> a] :
        p \in RelayPeers, a \in Multiaddrs}

ClientEvents == FunctionCallEvents \cup NewConnectionEvents

\* the events of an endless stream of inbound events
FurtherEvents == {ev \in NewConnectionEvents : ev.multiaddr # bootstrap}

\* the guard of the first match arm, lib.rs:123-130
IsServiceCall(ev) ==
    /\ ev.kind = "FunctionCall"
    /\ IsSome(ev.target)
    /\ IsSome(ev.reply_to)
    /\ contains(Unwrap(ev.target), IPFS_SERVICE)

\* the guard of the second match arm, lib.rs:145
IsBootstrapConnection(ev) ==
    /\ ev.kind = "NewConnection"
    /\ ev.multiaddr = bootstrap

----------------------------------------------------------------------------
(* The orchestrator *)

OrchInit ==
    /\ pc = "loop"
    /\ bootstrap_id = None
    /\ periodic = [remaining |-> PeriodicTicks, done |-> FALSE]
    /\ stop = "pending"
    /\ client_task = "running"
    /\ stop_calls = 0
    /\ reg_calls = 0
    /\ reply_calls = 0
    /\ last_sent = None
    /\ handled = 0
    /\ last_event = None
    /\ exit_by = "none"

\* client.receive_one() yields Some(ev): the transport is alive and has an event
ReceiveSome == pc = "loop" /\ client_task = "running" /\ handled < MaxEvents

\* lib.rs:123-144: a call for the IPFS.multiaddr service. The reply is built
\* with bootstrap_id.clone().unwrap() before the check of lib.rs:139.
OnServiceCall ==
    \E ev \in ClientEvents :
        /\ ReceiveSome
        /\ IsServiceCall(ev)
        /\ handled' = handled + 1
        /\ last_event' = Some(ev)
        /\ IF IsSome(bootstrap_id)
           THEN LET call == multiaddr_call(Unwrap(bootstrap_id), client_peer_id,
                                           Unwrap(ev.reply_to),
                                           msg_id_of(ev.msg_id), ipfs,
                                           client_key_pair)
                IN  /\ last_sent' = Some(Call(Unwrap(bootstrap_id), call))
                    /\ reply_calls' = reply_calls + 1
                    /\ pc' = pc
           ELSE \* unwrap() of None panics
                /\ pc' = "panicked"
                /\ UNCHANGED <<last_sent, reply_calls>>
        /\ UNCHANGED <<bootstrap_id, periodic, stop, client_task, stop_calls,
                       reg_calls, exit_by>>

\* lib.rs:145-148
OnBootstrapConnected ==
    \E ev \in ClientEvents :
        /\ ReceiveSome
        /\ ~IsServiceCall(ev)
        /\ IsBootstrapConnection(ev)
        /\ bootstrap_id' = Some(ev.peer_id)
        /\ handled' = handled + 1
        /\ last_event' = Some(ev)
        /\ UNCHANGED <<pc, periodic, stop, client_task, stop_calls, reg_calls,
                       reply_calls, last_sent, exit_by>>

OnIgnoredEvent_RecordsPeer ==
    \E ev \in ClientEvents :
        /\ ReceiveSome
        /\ ~IsServiceCall(ev)
        /\ ~IsBootstrapConnection(ev)
        /\ handled' = handled + 1
        /\ last_event' = Some(ev)
        /\ bootstrap_id' = IF ev.kind = "NewConnection" THEN Some(ev.peer_id)
                           ELSE bootstrap_id
        /\ UNCHANGED <<pc, periodic, stop, client_task, stop_calls, reg_calls,
                       reply_calls, last_sent, exit_by>>

\* lib.rs:149
OnIgnoredEvent ==
    \E ev \in ClientEvents :
        /\ ReceiveSome
        /\ ~IsServiceCall(ev)
        /\ ~IsBootstrapConnection(ev)
        /\ handled' = handled + 1
        /\ last_event' = Some(ev)
        /\ UNCHANGED <<pc, bootstrap_id, periodic, stop, client_task,
                       stop_calls, reg_calls, reply_calls, last_sent, exit_by>>

\* lib.rs:150-153: client.receive_one() yields None
OnClientClosed ==
    /\ pc = "loop"
    /\ client_task = "finished"
    /\ pc' = "awaiting"
    /\ exit_by' = "closed"
    /\ UNCHANGED <<last_event, bootstrap_id, periodic, stop, client_task,
                   stop_calls, reg_calls, reply_calls, last_sent, handled>>

\* Fuse<Take<Interval>>::poll_next when the arm is taken: an item while ticks
\* remain, then None once, after which the stream is terminated
periodic_next ==
    IF periodic.remaining > 0
    THEN [remaining |-> periodic.remaining - 1, done |-> FALSE]
    ELSE [remaining |-> 0, done |-> TRUE]

PeriodicArm_AfterIncoming ==
    /\ pc = "loop"
    /\ client_task # "running"
    /\ ~periodic.done
    /\ periodic' = periodic_next
    /\ IF IsSome(bootstrap_id)
       THEN LET call == register_call(client_peer_id, Unwrap(bootstrap_id),
                                      IPFS_SERVICE_ID, client_key_pair)
            IN  /\ last_sent' = Some(Call(Unwrap(bootstrap_id), call))
                /\ reg_calls' = reg_calls + 1
       ELSE UNCHANGED <<last_sent, reg_calls>>
    /\ UNCHANGED <<last_event, pc, bootstrap_id, stop, client_task,
                   stop_calls, reply_calls, handled, exit_by>>

PeriodicArm_NoRelayCheck ==
    /\ pc = "loop"
    /\ ~periodic.done
    /\ periodic' = periodic_next
    /\ LET node == IF IsSome(bootstrap_id) THEN Unwrap(bootstrap_id) ELSE "R1"
           call == register_call(client_peer_id, node, IPFS_SERVICE_ID,
                                 client_key_pair)
       IN  /\ last_sent' = Some(Call(node, call))
           /\ reg_calls' = reg_calls + 1
    /\ UNCHANGED <<last_event, pc, bootstrap_id, stop, client_task,
                   stop_calls, reply_calls, handled, exit_by>>

\* lib.rs:156-166: `_ = periodic.next()` matches every value the stream
\* yields, the final None included
PeriodicArm ==
    /\ pc = "loop"
    /\ ~periodic.done
    /\ periodic' = periodic_next
    /\ IF IsSome(bootstrap_id)
       THEN LET call == register_call(client_peer_id, Unwrap(bootstrap_id),
                                      IPFS_SERVICE_ID, client_key_pair)
            IN  /\ last_sent' = Some(Call(Unwrap(bootstrap_id), call))
                /\ reg_calls' = reg_calls + 1
       ELSE UNCHANGED <<last_sent, reg_calls>>
    /\ UNCHANGED <<last_event, pc, bootstrap_id, stop, client_task,
                   stop_calls, reply_calls, handled, exit_by>>

StopArm_NoBreak ==
    /\ pc = "loop"
    /\ stop = "ready"
    /\ stop' = "taken"
    /\ stop_calls' = stop_calls + 1
    /\ exit_by' = "signal"
    /\ UNCHANGED <<last_event, pc, bootstrap_id, periodic, client_task,
                   reg_calls, reply_calls, last_sent, handled>>

StopArm_NoStop ==
    /\ pc = "loop"
    /\ stop = "ready"
    /\ stop' = "taken"
    /\ pc' = "awaiting"
    /\ exit_by' = "signal"
    /\ UNCHANGED <<last_event, bootstrap_id, periodic, client_task,
                   stop_calls, reg_calls, reply_calls, last_sent, handled>>

\* lib.rs:167-171
StopArm ==
    /\ pc = "loop"
    /\ stop = "ready"
    /\ stop' = "taken"
    /\ stop_calls' = stop_calls + 1
    /\ pc' = "awaiting"
    /\ exit_by' = "signal"
    /\ UNCHANGED <<last_event, bootstrap_id, periodic, client_task,
                   reg_calls, reply_calls, last_sent, handled>>

AwaitClientTask_NoWait ==
    /\ pc = "awaiting"
    /\ pc' = "returned"
    /\ UNCHANGED <<last_event, bootstrap_id, periodic, stop, client_task,
                   stop_calls, reg_calls, reply_calls, last_sent, handled,
                   last_event, exit_by>>

\* lib.rs:175-179: client_task.await, then Ok(())
AwaitClientTask ==
    /\ pc = "awaiting"
    /\ client_task = "finished"
    /\ pc' = "returned"
    /\ UNCHANGED <<last_event, bootstrap_id, periodic, stop, client_task,
                   stop_calls, reg_calls, reply_calls, last_sent, handled,
                   last_event, exit_by>>

(* The environment of the orchestrator *)

\* the owner of the stop channel sends (or drops) the one-shot signal
StopSignal ==
    /\ stop = "pending"
    /\ stop' = "ready"
    /\ UNCHANGED <<last_event, pc, bootstrap_id, periodic, client_task,
                   stop_calls, reg_calls, reply_calls, last_sent, handled,
                   last_event, exit_by>>

\* the transport's background task ends because the connection is lost
TransportCloses ==
    /\ client_task = "running"
    /\ client_task' = "finished"
    /\ UNCHANGED <<last_event, pc, bootstrap_id, periodic, stop, stop_calls,
                   reg_calls, reply_calls, last_sent, handled, exit_by>>

\* the transport's background task ends after client.stop()
ClientTaskStops ==
    /\ client_task = "running"
    /\ stop_calls > 0
    /\ client_task' = "finished"
    /\ UNCHANGED <<last_event, pc, bootstrap_id, periodic, stop, stop_calls,
                   reg_calls, reply_calls, last_sent, handled, exit_by>>

OrchNext ==
    \/ OnServiceCall /\ UNCHANGED sched_vars
    \/ OnBootstrapConnected /\ UNCHANGED sched_vars
    \/ OnIgnoredEvent /\ UNCHANGED sched_vars
    \/ OnClientClosed /\ UNCHANGED sched_vars
    \/ PeriodicArm /\ UNCHANGED sched_vars
    \/ StopArm /\ UNCHANGED sched_vars
    \/ AwaitClientTask /\ UNCHANGED sched_vars
    \/ StopSignal /\ UNCHANGED sched_vars
    \/ TransportCloses /\ UNCHANGED sched_vars
    \/ ClientTaskStops /\ UNCHANGED sched_vars

----------------------------------------------------------------------------
(* Notifications of the bridge *)

\* InPeerNotification::Relay { src_id, dst_id, data }
Relay(src_id, dst_id, data) ==
    [kind |-> "Relay", src_id |-> src_id, dst_id |-> dst_id, data |-> data,
     state |-> ""]

\* InPeerNotification::NetworkState { dst_id, state }
NetworkState(dst_id, state) ==
    [kind |-> "NetworkState", src_id |-> "", dst_id |-> dst_id, data |-> "",
     state |-> state]

InPeerNotifications ==
    {Relay("p1", "p2", "d1"), Relay("p2", "p1", "d2"), NetworkState("p1", "s1")}

\* the two operations of the behaviour the scheduler invokes, as the record
\* of the call made
relay_message(src, dst, data) ==
    [op |-> "relay_message", src |-> src, dst |-> dst, data |-> data, state |-> ""]

send_network_state(dst, state) ==
    [op |-> "send_network_state", src |-> "", dst |-> dst, data |-> "",
     state |-> state]

apply_notification_swapped(e) ==
    IF e.kind = "Relay"
    THEN relay_message(e.dst_id, e.src_id, e.data)
    ELSE send_network_state(e.dst_id, e.state)

\* peer_service.rs:103-118: the call a received notification turns into
apply_notification(e) ==
    IF e.kind = "Relay"
    THEN relay_message(e.src_id, e.dst_id, e.data)
    ELSE send_network_state(e.dst_id, e.state)

----------------------------------------------------------------------------
(* The service scheduler *)

SchedInit ==
    /\ spc = "parked"
    /\ woken = TRUE
    /\ peer_service_in = <<>>
    /\ in_open = TRUE
    /\ enqueued = <<>>
    /\ applied = <<>>
    /\ net_pending = 0
    /\ produced = 0
    /\ out_events = <<>>
    /\ peer_service_out = <<>>
    /\ out_open = TRUE
    /\ exit_signal = "unsent"
    /\ exit_calls = 0
    /\ tick_forwards = 0
    /\ in_poll = "none"
    /\ lock = "free"

\* the spawned future (peer_service.rs:75-86) exists and can still be polled
TaskAlive == spc \notin {"done", "panicked"}

\* the executor polls the notified task: Select polls peer_service_executor
\* first, so a tick starts
PollStart ==
    /\ spc = "parked"
    /\ woken
    /\ spc' = "drain"
    /\ woken' = FALSE
    /\ tick_forwards' = 0
    /\ UNCHANGED <<peer_service_in, in_open, enqueued, applied, net_pending,
                   produced, out_events, peer_service_out, out_open,
                   exit_signal, exit_calls, in_poll, lock>>

\* peer_service.lock().unwrap() at peer_service.rs:109, 114, 132 and 142: the
\* tick waits for the mutex and takes it
LockSwarm ==
    /\ \/ spc = "drain" /\ peer_service_in # <<>>
       \/ spc \in {"swarm", "pop"}
    /\ lock = "free"
    /\ lock' = "executor"
    /\ UNCHANGED <<spc, woken, peer_service_in, in_open, enqueued, applied,
                   net_pending, produced, out_events, peer_service_out,
                   out_open, exit_signal, exit_calls, tick_forwards, in_poll>>

\* peer_service.rs:102-118: peer_service_in.poll() is Ready(Some(e)); the
\* guard is dropped at the end of the match arm
DrainApply ==
    /\ spc = "drain"
    /\ peer_service_in # <<>>
    /\ lock = "executor"
    /\ lock' = "free"
    /\ applied' = Append(applied, apply_notification(Head(peer_service_in)))
    /\ peer_service_in' = Tail(peer_service_in)
    /\ UNCHANGED <<spc, woken, in_open, enqueued, net_pending, produced,
                   out_events, peer_service_out, out_open, exit_signal,
                   exit_calls, tick_forwards, in_poll>>

\* peer_service.rs:119-127: NotReady, or Ready(None) once every producer is
\* gone; both leave the first loop
DrainBreak ==
    /\ spc = "drain"
    /\ peer_service_in = <<>>
    /\ spc' = "swarm"
    /\ in_poll' = IF in_open THEN "NotReady" ELSE "ReadyNone"
    /\ UNCHANGED <<woken, peer_service_in, in_open, enqueued, applied,
                   net_pending, produced, out_events, peer_service_out,
                   out_open, exit_signal, exit_calls, tick_forwards, lock>>

\* the behaviour queues an outbound event behind those already pending
push_out_node_event(q, e) == Append(q, e)

\* PeerServiceBehaviour::pop_out_node_event: the oldest pending outbound
\* event, if any
pop_out_node_event(q) == IF q = <<>> THEN None ELSE Some(Head(q))

\* peer_service.rs:132-135: swarm.poll() is Ready(Some(e)); processing a
\* network happening queues one outbound event in the behaviour; the guard
\* is dropped at the end of the match
SwarmPollEvent ==
    /\ spc = "swarm"
    /\ net_pending > 0
    /\ lock = "executor"
    /\ lock' = "free"
    /\ net_pending' = net_pending - 1
    /\ produced' = produced + 1
    /\ out_events' = push_out_node_event(out_events, produced + 1)
    /\ UNCHANGED <<spc, woken, peer_service_in, in_open, enqueued, applied,
                   peer_service_out, out_open, exit_signal, exit_calls,
                   tick_forwards, in_poll>>

\* peer_service.rs:137-138: swarm.poll() is NotReady (or Err): the second
\* loop is left
SwarmPollNotReady ==
    /\ spc = "swarm"
    /\ net_pending = 0
    /\ lock = "executor"
    /\ lock' = "free"
    /\ spc' = "pop"
    /\ UNCHANGED <<woken, peer_service_in, in_open, enqueued, applied,
                   net_pending, produced, out_events, peer_service_out,
                   out_open, exit_signal, exit_calls, tick_forwards, in_poll>>

ForwardOutEvent_All ==
    /\ spc = "pop"
    /\ lock = "executor"
    /\ lock' = "free"
    /\ spc' = "select"
    /\ out_events' = <<>>
    /\ peer_service_out' = peer_service_out \o out_events
    /\ tick_forwards' = tick_forwards + Len(out_events)
    /\ UNCHANGED <<woken, peer_service_in, in_open, enqueued, applied,
                   net_pending, produced, out_open, exit_signal, exit_calls,
                   in_poll>>

ForwardOutEvent_KeepsGuard ==
    /\ spc = "pop"
    /\ lock = "executor"
    /\ lock' = lock
    /\ spc' = "select"
    /\ IF IsSome(pop_out_node_event(out_events)) /\ out_open
       THEN /\ out_events' = Tail(out_events)
            /\ peer_service_out' =
                   Append(peer_service_out, Unwrap(pop_out_node_event(out_events)))
            /\ tick_forwards' = tick_forwards + 1
       ELSE UNCHANGED <<out_events, peer_service_out, tick_forwards>>
    /\ UNCHANGED <<woken, peer_service_in, in_open, enqueued, applied,
                   net_pending, produced, out_open, exit_signal, exit_calls,
                   in_poll>>

\* peer_service.rs:142-148: pop at most one outbound event and try_send it;
\* unwrap() panics when the consumer of the outbound channel is gone.
\* The guard taken at line 142 lives to the end of the `if let`; a panic
\* drops it while unwinding. The tick then returns NotReady.
ForwardOutEvent ==
    /\ spc = "pop"
    /\ lock = "executor"
    /\ lock' = "free"
    /\ IF IsSome(pop_out_node_event(out_events))
       THEN /\ out_events' = Tail(out_events)
            /\ IF out_open
               THEN /\ peer_service_out' =
                           Append(peer_service_out,
                                  Unwrap(pop_out_node_event(out_events)))
                    /\ tick_forwards' = tick_forwards + 1
                    /\ spc' = "select"
               ELSE /\ spc' = "panicked"
                    /\ UNCHANGED <<peer_service_out, tick_forwards>>
       ELSE /\ spc' = "select"
            /\ UNCHANGED <<out_events, peer_service_out, tick_forwards>>
    /\ UNCHANGED <<woken, peer_service_in, in_open, enqueued, applied,
                   net_pending, produced, out_open, exit_signal, exit_calls,
                   in_poll>>

\* peer_service.rs:83: node_service.lock().unwrap() in the continuation that
\* runs once exit_receiver has resolved
LockSwarmForExit ==
    /\ spc = "select"
    /\ exit_signal # "unsent"
    /\ lock = "free"
    /\ lock' = "shutdown"
    /\ UNCHANGED <<spc, woken, peer_service_in, in_open, enqueued, applied,
                   net_pending, produced, out_events, peer_service_out,
                   out_open, exit_signal, exit_calls, tick_forwards, in_poll>>

\* peer_service.rs:77-85: the executor was NotReady, so Select polls
\* exit_receiver; once it resolves the continuation calls swarm.exit() and
\* the task completes
SelectExit ==
    /\ spc = "select"
    /\ IF exit_signal # "unsent"
       THEN /\ lock = "shutdown"
            /\ lock' = "free"
            /\ exit_calls' = exit_calls + 1
            /\ spc' = "done"
       ELSE /\ spc' = "parked"
            /\ UNCHANGED <<exit_calls, lock>>
    /\ UNCHANGED <<woken, peer_service_in, in_open, enqueued, applied,
                   net_pending, produced, out_events, peer_service_out,
                   out_open, exit_signal, tick_forwards, in_poll>>

(* The environment of the scheduler: the holders of PeerServiceDescriptor, *)
(* the caller that passed the Arc<Mutex<PeerService>>, and the network     *)

\* peer_channel_in.try_send(n): succeeds while the receiver exists
Enqueue ==
    \E n \in InPeerNotifications :
        /\ in_open
        /\ TaskAlive
        /\ Len(enqueued) < MaxIn
        /\ peer_service_in' = Append(peer_service_in, n)
        /\ enqueued' = Append(enqueued, n)
        /\ woken' = TRUE
        /\ UNCHANGED <<spc, in_open, applied, net_pending, produced,
                       out_events, peer_service_out, out_open, exit_signal,
                       exit_calls, tick_forwards, in_poll, lock>>

\* every peer_channel_in sender is dropped
DropInProducers ==
    /\ in_open
    /\ in_open' = FALSE
    /\ woken' = TRUE
    /\ UNCHANGED <<spc, peer_service_in, enqueued, applied, net_pending,
                   produced, out_events, peer_service_out, out_open,
                   exit_signal, exit_calls, tick_forwards, in_poll, lock>>

\* peer_channel_out is dropped
DropOutConsumer ==
    /\ out_open
    /\ out_open' = FALSE
    /\ UNCHANGED <<spc, woken, peer_service_in, in_open, enqueued, applied,
                   net_pending, produced, out_events, peer_service_out,
                   exit_signal, exit_calls, tick_forwards, in_poll, lock>>

\* something happens on the network; the swarm notifies the task
NetworkActivity ==
    /\ TaskAlive
    /\ produced + net_pending < MaxNet
    /\ net_pending' = net_pending + 1
    /\ woken' = TRUE
    /\ UNCHANGED <<spc, peer_service_in, in_open, enqueued, applied, produced,
                   out_events, peer_service_out, out_open, exit_signal,
                   exit_calls, tick_forwards, in_poll, lock>>

\* exit_sender.send(()): succeeds while exit_receiver exists
SendExit ==
    /\ exit_signal = "unsent"
    /\ TaskAlive
    /\ exit_signal' = "sent"
    /\ woken' = TRUE
    /\ UNCHANGED <<spc, peer_service_in, in_open, enqueued, applied,
                   net_pending, produced, out_events, peer_service_out,
                   out_open, exit_calls, tick_forwards, in_poll, lock>>

\* exit_sender is dropped without a send: exit_receiver resolves with an error
DropExitSender ==
    /\ exit_signal = "unsent"
    /\ TaskAlive
    /\ exit_signal' = "dropped"
    /\ woken' = TRUE
    /\ UNCHANGED <<spc, peer_service_in, in_open, enqueued, applied,
                   net_pending, produced, out_events, peer_service_out,
                   out_open, exit_calls, tick_forwards, in_poll, lock>>

\* a clone of the Arc<Mutex<PeerService>> that PeerService::new handed to
\* its caller (peer_service.rs:47, 63, 68) is locked outside the task
OtherHolderLocks ==
    /\ lock = "free"
    /\ lock' = "other"
    /\ UNCHANGED <<spc, woken, peer_service_in, in_open, enqueued, applied,
                   net_pending, produced, out_events, peer_service_out,
                   out_open, exit_signal, exit_calls, tick_forwards, in_poll>>

\* and unlocked again
OtherHolderUnlocks ==
    /\ lock = "other"
    /\ lock' = "free"
    /\ UNCHANGED <<spc, woken, peer_service_in, in_open, enqueued, applied,
                   net_pending, produced, out_events, peer_service_out,
                   out_open, exit_signal, exit_calls, tick_forwards, in_poll>>

SchedNext ==
    \/ PollStart /\ UNCHANGED orch_vars
    \/ LockSwarm /\ UNCHANGED orch_vars
    \/ DrainApply /\ UNCHANGED orch_vars
    \/ DrainBreak /\ UNCHANGED orch_vars
    \/ SwarmPollEvent /\ UNCHANGED orch_vars
    \/ SwarmPollNotReady /\ UNCHANGED orch_vars
    \/ ForwardOutEvent /\ UNCHANGED orch_vars
    \/ LockSwarmForExit /\ UNCHANGED orch_vars
    \/ SelectExit /\ UNCHANGED orch_vars
    \/ Enqueue /\ UNCHANGED orch_vars
    \/ DropInProducers /\ UNCHANGED orch_vars
    \/ DropOutConsumer /\ UNCHANGED orch_vars
    \/ NetworkActivity /\ UNCHANGED orch_vars
    \/ SendExit /\ UNCHANGED orch_vars
    \/ DropExitSender /\ UNCHANGED orch_vars
    \/ OtherHolderLocks /\ UNCHANGED orch_vars
    \/ OtherHolderUnlocks /\ UNCHANGED orch_vars

----------------------------------------------------------------------------
(* Specifications *)

Init == OrchInit /\ SchedInit

\* the orchestrator alone
Spec == Init /\ [][OrchNext]_vars

\* the scheduler alone
SchedSpec == Init /\ [][SchedNext]_vars

\* lib.rs:121, 149: the transport keeps delivering events that the loop
\* ignores, beyond the MaxEvents events that the model counts
OnFurtherIgnoredEvent ==
    \E ev \in FurtherEvents :
        /\ pc = "loop"
        /\ client_task = "running"
        /\ handled = MaxEvents
        /\ ~IsServiceCall(ev)
        /\ ~IsBootstrapConnection(ev)
        /\ last_event' = Some(ev)
        /\ UNCHANGED <<pc, bootstrap_id, periodic, stop, client_task,
                       stop_calls, reg_calls, reply_calls, last_sent, handled,
                       exit_by>>

\* the `incoming = client.receive_one()` arm of the select, lib.rs:121-154
IncomingArm ==
    \/ OnServiceCall
    \/ OnBootstrapConnected
    \/ OnIgnoredEvent
    \/ OnFurtherIgnoredEvent
    \/ OnClientClosed

FairNext ==
    \/ OrchNext
    \/ OnFurtherIgnoredEvent /\ UNCHANGED sched_vars

\* The orchestrator with an endless stream of inbound events, under fair
\* scheduling: futures::select! (lib.rs:120) picks pseudo-randomly among the
\* arms that are ready, so an arm that stays ready is eventually taken; the
\* executor eventually resumes the function at client_task.await.
FairSpec ==
    /\ Init
    /\ [][FairNext]_vars
    /\ WF_vars(IncomingArm /\ UNCHANGED sched_vars)
    /\ WF_vars(PeriodicArm /\ UNCHANGED sched_vars)
    /\ WF_vars(StopArm /\ UNCHANGED sched_vars)
    /\ WF_vars(AwaitClientTask /\ UNCHANGED sched_vars)

----------------------------------------------------------------------------
(* Claims about the orchestrator, checked under Spec *)

\* C1: a call for the IPFS.multiaddr service (target and reply_to present)
\* that arrives while no relay is recorded is logged and skipped: nothing is
\* sent, the loop does not crash and stays in the loop.
C1_ServiceCallWithoutRelaySkipped ==
    [][(OnServiceCall /\ bootstrap_id = None)
        => (pc' = "loop" /\ UNCHANGED <<last_sent, reply_calls, reg_calls>>)]_vars

\* C2: with the timer bounded to 10 ticks, at most 10 registration calls are
\* ever sent from the periodic arm.
C2_AtMostTenRegistrations == reg_calls <= PeriodicTicks

\* C3: while no relay is recorded no registration call has been sent, and a
\* timer firing without a relay sends nothing and leaves the loop running.
C3_NoRelayNoRegistration ==
    /\ [](bootstrap_id = None => reg_calls = 0)
    /\ [][(bootstrap_id = None /\ periodic' # periodic)
           => (pc = "loop" /\ pc' = "loop"
               /\ UNCHANGED <<last_sent, reg_calls, reply_calls>>)]_vars

C3_TimerFiredWithoutRelay ==
    /\ bootstrap_id = None
    /\ periodic.remaining < PeriodicTicks
    /\ pc = "loop"

\* C4: with relay R recorded from the bootstrap's NewConnection, a timer
\* firing sends exactly one command Call{node = R, call}: target
\* Service("provide"), arguments.service_id "IPFS.multiaddr", reply_to
\* [Peer(R), Peer(A)] followed by a signature of that path made with A's key.
C4_TimerRegistersAtRelay ==
    [][(IsSome(bootstrap_id) /\ periodic' # periodic)
        => /\ reg_calls' = reg_calls + 1
           /\ reply_calls' = reply_calls
           /\ IsSome(last_sent')
           /\ LET R == Unwrap(bootstrap_id)
                  cmd == Unwrap(last_sent')
                  rt == Unwrap(cmd.call.reply_to)
              IN  /\ cmd.node = R
                  /\ cmd.call.target = Some(<<Service("provide")>>)
                  /\ cmd.call.arguments.service_id = "IPFS.multiaddr"
                  /\ IsSome(cmd.call.reply_to)
                  /\ Len(rt) = 3
                  /\ SubSeq(rt, 1, 2) = <<Peer(R), Peer(client_peer_id)>>
                  /\ verify(rt, client_key_pair)]_vars

C4_RegisteredAfterBootstrapConnected ==
    /\ bootstrap_id = Some("R1")
    /\ reg_calls = 1
    /\ reply_calls = 0
    /\ IsSome(last_sent)
    /\ Unwrap(last_sent).node = "R1"

\* C5: client.stop() is issued at most once, and exactly once when the loop
\* was left through the stop arm.
C5_StopIssuedOnce ==
    /\ stop_calls <= 1
    /\ (exit_by = "signal" => stop_calls = 1)
    /\ (pc = "loop" => stop_calls = 0)

C5_ReturnedAfterStopSignal == exit_by = "signal" /\ pc = "returned"

\* C6 as stated: in an iteration that starts after the stop signal became
\* ready no inbound event is handled and no call is sent.
C6_NoWorkOnceStopReady ==
    [][stop = "ready"
        => (handled' = handled /\ reg_calls' = reg_calls
            /\ reply_calls' = reply_calls)]_vars

\* C6 as amended: the iteration in which the stop arm is taken leaves the
\* loop, and neither in it nor after it is an inbound event handled or a
\* call sent.
C6_NoWorkOnceStopTaken ==
    [][exit_by' = "signal"
        => (pc' # "loop" /\ UNCHANGED <<handled, reg_calls, reply_calls, last_sent>>)]_vars

C6_StopTakenAfterWork ==
    /\ exit_by = "signal"
    /\ handled > 0
    /\ reg_calls > 0

\* C7 as stated: on both exits (transport closed, stop signal) the transport
\* is told to stop and Ok is returned only after client_task completed.
C7_StopsTransportOnEveryExit ==
    /\ (pc \in {"awaiting", "returned"} => stop_calls = 1)
    /\ (pc = "returned" => client_task = "finished")

\* C7 as amended: Ok is returned only after client_task completed, on both
\* exits; client.stop() is called on the stop-signal exit and not on the
\* closed-transport exit.
C7_ReturnsAfterClientTask ==
    /\ (pc = "returned" => client_task = "finished")
    /\ (pc \in {"awaiting", "returned"} <=> exit_by \in {"signal", "closed"})
    /\ (exit_by = "signal" => stop_calls = 1)
    /\ (exit_by = "closed" => stop_calls = 0)

C7_ReturnedAfterTransportClosed == pc = "returned" /\ exit_by = "closed"

----------------------------------------------------------------------------
(* Claims about the scheduler, checked under SchedSpec *)

\* the swarm call the claims expect for a notification
ExpectedCall(n) ==
    IF n.kind = "Relay"
    THEN [op |-> "relay_message", src |-> n.src_id, dst |-> n.dst_id,
          data |-> n.data, state |-> ""]
    ELSE [op |-> "send_network_state", src |-> "", dst |-> n.dst_id,
          data |-> "", state |-> n.state]

\* C8 as stated: every notification put on the inbound channel before
\* shutdown has been applied (exactly once, in order) when the task is done.
C8_EveryNotificationApplied ==
    spc = "done" => applied = [i \in 1..Len(enqueued) |-> ExpectedCall(enqueued[i])]

\* C8 as amended: the calls applied are those of a prefix of the
\* notifications enqueued, each once, in receipt order, with unchanged
\* arguments, the rest being still queued; a tick applies every ready
\* notification before it polls the swarm or forwards an outbound event.
C8_AppliedInReceiptOrder ==
    /\ [](/\ Len(applied) <= Len(enqueued)
          /\ applied = [i \in 1..Len(applied) |-> ExpectedCall(enqueued[i])]
          /\ peer_service_in = SubSeq(enqueued, Len(applied) + 1, Len(enqueued)))
    /\ [][(spc = "drain" /\ spc' # "drain") => peer_service_in = <<>>]_vars
    /\ [][spc = "drain" => UNCHANGED <<produced, out_events, peer_service_out>>]_vars
    /\ [][applied' # applied => spc = "drain"]_vars

C8_TwoAppliedThenForwarded ==
    /\ Len(applied) = 2
    /\ applied[1].op = "relay_message"
    /\ applied[2].op = "send_network_state"
    /\ Len(peer_service_out) >= 1

\* C9: a tick forwards at most one outbound event, and what has been put on
\* the outbound channel is a prefix of what the network layer produced
\* (events 1, 2, ... in this order), without duplicates or gaps.
C9_ForwardedIsPrefix ==
    /\ tick_forwards <= 1
    /\ Len(peer_service_out) <= produced
    /\ peer_service_out = [i \in 1..Len(peer_service_out) |-> i]

C9_TwoEventsForwarded == Len(peer_service_out) = 2 /\ produced = 2

\* C10: once the exit signal has been sent, the task calls swarm.exit()
\* exactly once and terminates, and nothing is applied or forwarded after
\* the shutdown began.
C10_ExitSentShutsDownOnce ==
    /\ [](exit_calls <= 1)
    /\ []((exit_signal = "sent" /\ ~TaskAlive) => (spc = "done" /\ exit_calls = 1))
    /\ [][exit_calls >= 1 => UNCHANGED <<applied, peer_service_out>>]_vars

\* C11: when the consumer of the outbound channel is gone and an outbound
\* event is pending, forwarding it does not crash the scheduler task.
C11_ForwardWithoutConsumerNoPanic ==
    [][(spc = "pop" /\ ~out_open /\ out_events # <<>>) => spc' # "panicked"]_vars

\* C12: once every producer of the inbound channel is gone (the channel
\* polled Ready(None) in this tick), the executor future completes and the
\* task goes on to its shutdown without an exit signal.
C12_ProducersGoneCompletesTask ==
    [][(spc = "select" /\ in_poll = "ReadyNone") => spc' = "done"]_vars

\* C13: the recorded relay changes only when a NewConnection event from the
\* configured bootstrap address is handled, and then becomes that event's
\* peer id; any other event, timer firing or stop leaves it unchanged; and
\* every call handed to client.send is addressed to the relay recorded at
\* that moment.
C13_RelayChangesOnlyOnBootstrapConnection ==
    /\ [][bootstrap_id' # bootstrap_id =>
            /\ handled' = handled + 1
            /\ IsSome(last_event')
            /\ Unwrap(last_event').kind = "NewConnection"
            /\ Unwrap(last_event').multiaddr = bootstrap]_vars
    /\ [][(handled' = handled + 1
           /\ Unwrap(last_event').kind = "NewConnection"
           /\ Unwrap(last_event').multiaddr = bootstrap)
          => bootstrap_id' = Some(Unwrap(last_event').peer_id)]_vars
    /\ [][last_sent' # last_sent =>
            /\ IsSome(bootstrap_id)
            /\ bootstrap_id' = bootstrap_id
            /\ IsSome(last_sent')
            /\ Unwrap(last_sent').node = Unwrap(bootstrap_id)]_vars

\* the relay was recorded, replaced by a second bootstrap connection, and a
\* call went to the relay recorded last
C13_SentToRelayRecordedLast ==
    /\ bootstrap_id = Some("R2")
    /\ IsSome(last_sent)
    /\ Unwrap(last_sent).node = "R2"
    /\ handled = 2
    /\ reg_calls = 2

\* what C14 requires of a reply `cmd` sent for the inbound event `ev` while
\* `node` is the recorded relay, the correlation id aside
ReplyAnswers(ev, cmd, node) ==
    /\ ev.kind = "FunctionCall"
    /\ IsSome(ev.target)
    /\ IsSome(ev.reply_to)
    /\ contains(Unwrap(ev.target), IPFS_SERVICE)
    /\ cmd.node = node
    /\ cmd.call.target = ev.reply_to
    /\ cmd.call.arguments.multiaddr = ipfs
    /\ cmd.call.reply_to =
           Some(<<Peer(node), Peer(client_peer_id),
                  Signature(sign(client_key_pair,
                                 path_bytes(<<Peer(node), Peer(client_peer_id)>>)))>>)

\* C14 as stated: a reply is sent only for a matching inbound call, has the
\* fields above, and its arguments carry the incoming call's msg_id.
C14_ReplyCarriesIncomingMsgId ==
    [][reply_calls' # reply_calls =>
         /\ handled' = handled + 1
         /\ ReplyAnswers(Unwrap(last_event'), Unwrap(last_sent'),
                         Unwrap(bootstrap_id))
         /\ IsSome(Unwrap(last_event').msg_id) =>
                Unwrap(last_sent').call.arguments.msg_id =
                    Unwrap(Unwrap(last_event').msg_id)]_vars

\* C14, amended: a reply is sent only for an inbound FunctionCall whose target
\* and reply_to are present and whose target contains the IPFS.multiaddr
\* segment; its target is the incoming reply_to, its arguments carry the
\* configured multiaddr and the incoming msg_id when that is a JSON string
\* (null when it is absent or any other JSON value), its reply_to is the
\* signed path [Peer(relay), Peer(self)]; an inbound event that does not
\* match sends nothing.
C14_ReplyCarriesStringMsgId ==
    /\ [][reply_calls' # reply_calls =>
            /\ handled' = handled + 1
            /\ ReplyAnswers(Unwrap(last_event'), Unwrap(last_sent'),
                            Unwrap(bootstrap_id))
            /\ Unwrap(last_sent').call.arguments.msg_id =
                   IF /\ IsSome(Unwrap(last_event').msg_id)
                      /\ Unwrap(Unwrap(last_event').msg_id).json = "string"
                   THEN Unwrap(Unwrap(last_event').msg_id)
                   ELSE JsonNull]_vars
    /\ [][(handled' = handled + 1 /\ ~IsServiceCall(Unwrap(last_event')))
          => UNCHANGED <<last_sent, reply_calls, reg_calls>>]_vars

\* a reply to a call with a string msg_id went out through relay R1
C14_RepliedWithMsgId ==
    /\ reply_calls = 1
    /\ IsSome(last_event)
    /\ IsServiceCall(Unwrap(last_event))
    /\ IsSome(last_sent)
    /\ Unwrap(last_sent).call.arguments.msg_id = JsonString("m1")
    /\ Unwrap(last_sent).call.target = Some(<<Peer("R2"), Peer("B")>>)
    /\ Unwrap(last_sent).node = "R1"

\* C15: every envelope handed to client.send has a target and a reply_to
\* that verifies with the client's key: exactly one Signature segment, the
\* last one, over the bytes of the preceding segments, which are
\* [Peer(relay), Peer(client)].
C15_EnvelopesCarrySignedReplyTo ==
    IsSome(last_sent) =>
        LET cmd == Unwrap(last_sent)
        IN  /\ IsSome(cmd.call.target)
            /\ IsSome(cmd.call.reply_to)
            /\ verify(Unwrap(cmd.call.reply_to), client_key_pair)
            /\ Len(Unwrap(cmd.call.reply_to)) = 3
            /\ SubSeq(Unwrap(cmd.call.reply_to), 1, 2) =
                   <<Peer(cmd.node), Peer(client_peer_id)>>
            /\ Cardinality({i \in 1..3 :
                   Unwrap(cmd.call.reply_to)[i].tag = "Signature"}) = 1

\* both builders have produced an envelope, the reply last
C15_RegisteredThenReplied ==
    /\ reg_calls >= 1
    /\ reply_calls >= 1
    /\ IsSome(last_sent)
    /\ Unwrap(last_sent).call.target = Some(<<Peer("R2"), Peer("B")>>)

\* C16: the swarm is owned by the scheduler task alone: nothing outside the
\* task ever gets (mutable) access to it.
C16_OnlySchedulerLocksSwarm == lock \in {"free", "executor", "shutdown"}

\* C17: under fair scheduling no ready source of the select is starved while
\* the loop runs, even with an endless stream of inbound events: with a relay
\* recorded a pending timer tick sends its registration, so the loop does not
\* stay forever with ticks remaining; a ready stop signal ends the loop; and a
\* ready inbound event is handled.
C17_NoSourceStarved ==
    /\ [][(pc = "loop" /\ IsSome(bootstrap_id) /\ periodic.remaining > 0
           /\ periodic' # periodic)
          => (reg_calls' = reg_calls + 1 /\ IsSome(last_sent'))]_vars
    /\ []<>~(pc = "loop" /\ IsSome(bootstrap_id) /\ periodic.remaining > 0)
    /\ []<>~(pc = "loop" /\ stop = "ready")
    /\ []<>~(pc = "loop" /\ client_task = "running" /\ handled < MaxEvents)

\* all ten registrations went out although inbound events never stopped
C17_RegisteredTenTimesUnderLoad ==
    /\ pc = "loop"
    /\ client_task = "running"
    /\ handled = MaxEvents
    /\ stop = "pending"
    /\ reg_calls = PeriodicTicks
    /\ IsSome(last_event)
    /\ Unwrap(last_event) \in FurtherEvents

\* C18: outbound events still pending in the behaviour after a tick get the
\* task ticked again: a parked task with two or more pending events and a
\* live consumer has been notified.
C18_PendingEventsWakeTask ==
    (spc = "parked" /\ Len(out_events) >= 2 /\ out_open) => woken

\* C19: the scheduler task ends only through the exit channel: whenever the
\* task has ended, the exit signal was sent or its sender dropped, and the
\* shutdown continuation has called swarm.exit() exactly once.
C19_EndsOnlyThroughExitChannel ==
    ~TaskAlive => (spc = "done" /\ exit_signal # "unsent" /\ exit_calls = 1)

\* C20: the scheduler takes the swarm mutex only when it is free, holds it
\* for one call on the swarm (or one pop and forward) and has released it
\* when the tick returns; so whoever holds the mutex is about to release it,
\* and the shutdown continuation and any other holder can acquire it.
C20_LockReleasedWithinTick ==
    /\ [](spc \in {"parked", "select", "done", "panicked"} => lock # "executor")
    /\ [](spc # "select" => lock # "shutdown")
    /\ [](lock = "executor" =>
            \/ spc = "drain" /\ peer_service_in # <<>>
            \/ spc \in {"swarm", "pop"})
    /\ [](lock = "shutdown" => exit_signal # "unsent")
    /\ [][(lock' # lock /\ lock' \in {"executor", "shutdown"})
          => lock = "free"]_vars
    /\ [][(lock = "executor"
           /\ <<spc, applied, produced, out_events>>' #
                  <<spc, applied, produced, out_events>>)
          => lock' = "free"]_vars

\* the continuation holds the mutex for swarm.exit() at the end of a tick in
\* which the executor held it to apply a notification and to forward an event
C20_ShutdownLocksAfterExecutor ==
    /\ lock = "shutdown"
    /\ spc = "select"
    /\ tick_forwards = 1
    /\ Len(applied) >= 1
    /\ out_events # <<>>

====
